---- MODULE Spec2Model ----
(***************************************************************************)
(* Model of quicktype's class-combining stage: typeSetsCanBeCombined,      *)
(* canBeCombined, tryAddToClique, findSimilarityCliques and                *)
(* combineClasses; and of the command line's Telemetry object.             *)
(*                                                                         *)
(* A Type is represented by the set of its alternatives: a non-union type  *)
(* is a singleton, a union is the set of its members (pairwise distinct    *)
(* kinds).  An alternative is a record [kind, items]; items is the set of  *)
(* item kinds of an array and {} for every other kind.                     *)
(***************************************************************************)
EXTENDS Integers, Sequences, FiniteSets, TLC

VARIABLES
    graph,               \* the classes of the type graph, in allNamedTypesSeparated order
    includeFixedClasses, \* parameter of findSimilarityCliques
    unprocessedClasses,  \* findSimilarityCliques: classes not yet seeded or grouped
    classesLeft,         \* findSimilarityCliques: classes rejected in the current round
    clique,              \* the clique under construction: [members, prototypes]
    cliques,             \* the cliques emitted so far (each a sequence of classes)
    i,                   \* index of the for loop (1-based; the seed is index 1)
    pc,                  \* position in the code
    run,                 \* which run of combineClasses is executing (1 or 2)
    c1, c2, c3,          \* arguments of direct calls of canBeCombined
    outcome,             \* how those calls ended
    analytics,           \* Telemetry.analytics: which Analytics the calls are forwarded to
    storedState,         \* the item "analyticsState" of the persistent storage
    initPc,              \* position of Telemetry.init(), which awaits storage.init()
    sent                 \* the hits sent to Google Analytics, in order

telemetryVars == <<analytics, storedState, initPc, sent>>

vars == <<graph, includeFixedClasses, unprocessedClasses, classesLeft, clique, cliques, i, pc, run, c1, c2, c3, outcome, telemetryVars>>

\* ------------------------------------------------------------------ bounds

\* Largest number of properties of a class passed to canBeCombined directly.
MaxProps == 4
\* Largest number of classes in a type graph.
MaxClasses == 4
\* Largest number of hits sent to Google Analytics.
MaxSent == 2

\* ---------------------------------------------------------------- telemetry

\* What getItemSync returns for an item that was never set.
Undefined == "undefined"

\* type TelemetryState = "none" | "disabled" | "enabled"
TelemetryState == {"none", "disabled", "enabled"}

\* Storage.get(name, def): storage.getItemSync(name) || def.  Every stored
\* value is a non-empty string, so only a missing item yields the default.
StorageGet(item, def) == IF item = Undefined THEN def ELSE item

\* static get analyticsState(): Storage.get("analyticsState", "none")
analyticsState == StorageGet(storedState, "none")

\* new Telemetry(): private analytics = new NoAnalytics(); init() not yet
\* called, nothing sent.
TelemetryConstructed ==
    /\ analytics = "NoAnalytics"
    /\ initPc = "idle"
    /\ sent = <<>>

\* The telemetry object of a process that does no telemetry call.
TelemetryUnused == TelemetryConstructed /\ storedState = Undefined

\* ------------------------------------------------------------ type model

Prim(k) == [kind |-> k, items |-> {}]
ArrayOf(k) == [kind |-> "array", items |-> {k}]

TNull == {Prim("null")}
TString == {Prim("string")}
TInteger == {Prim("integer")}

\* Type.ts nonNullTypeCases: the alternatives of a type without null.
nonNullTypeCases(t) == {a \in t : a.kind # "null"}

\* Type.ts structurallyCompatible on two non-class types: exact shape equality.
typeStructurallyCompatible(t, other) ==
    t.kind = other.kind /\ t.items = other.items

\* Type.ts structurallyCompatible on two classes: identical property names,
\* property types and optionality.
structurallyCompatible(a, b) ==
    /\ DOMAIN a.properties = DOMAIN b.properties
    /\ \A n \in DOMAIN a.properties :
          /\ a.properties[n].isOptional = b.properties[n].isOptional
          /\ a.properties[n].type = b.properties[n].type

\* --------------------------------------------------- typeSetsCanBeCombined

\* Mutant: the size test of line 23 is missing.
typeSetsCanBeCombined_NoSizeTest(s1, s2) ==
    \A t \in s1 :
        \E other \in s2 : other.kind = t.kind /\ typeStructurallyCompatible(t, other)

\* s2ByKind is a Map keyed by kind; the alternatives of a type have pairwise
\* distinct kinds, so the entry of a kind is the one alternative of that kind.
typeSetsCanBeCombined(s1, s2) ==
    IF Cardinality(s1) # Cardinality(s2) THEN FALSE
    ELSE \A t \in s1 :
            LET sameKind == {o \in s2 : o.kind = t.kind} IN
            IF sameKind = {} THEN FALSE
            ELSE typeStructurallyCompatible(t, CHOOSE o \in sameKind : TRUE)

\* ----------------------------------------------------------- canBeCombined

\* REQUIRED_OVERLAP = 3 / 4, kept as a fraction so that the arithmetic is exact.
REQUIRED_OVERLAP_NUM == 3
REQUIRED_OVERLAP_DEN == 4

Size(p) == Cardinality(DOMAIN p)

\* Insertion order of the property Maps: properties are inserted in this order.
PropertyOrder == <<"a", "b", "c", "d", "e">>
Names == {PropertyOrder[k] : k \in 1..Len(PropertyOrder)}
OrderedNames(p) == SelectSeq(PropertyOrder, LAMBDA n : n \in DOMAIN p)

\* Mutant: only one side of the size-ratio test of line 37.
SizeRatioRejects_OneSided(n1, n2) ==
    REQUIRED_OVERLAP_DEN * n1 < n2 * REQUIRED_OVERLAP_NUM

\* p1.size < p2.size * REQUIRED_OVERLAP || p2.size < p1.size * REQUIRED_OVERLAP
SizeRatioRejects(n1, n2) ==
    \/ REQUIRED_OVERLAP_DEN * n1 < n2 * REQUIRED_OVERLAP_NUM
    \/ REQUIRED_OVERLAP_DEN * n2 < n1 * REQUIRED_OVERLAP_NUM

\* Math.ceil(larger.size * REQUIRED_OVERLAP)
minOverlap(n) ==
    (n * REQUIRED_OVERLAP_NUM + REQUIRED_OVERLAP_DEN - 1) \div REQUIRED_OVERLAP_DEN

\* p1.size > p2.size: on a tie p2 is the larger and p1 the smaller.
FirstIsLarger(p1, p2) == Size(p1) > Size(p2)

\* Mutant: faults >= maxFaults aborts the scan.
FaultsExceeded_OffByOne(faults, maxFaults) == faults >= maxFaults

\* faults > maxFaults (lines 59 and 62)
FaultsExceeded(faults, maxFaults) == faults > maxFaults

\* smaller.forEach(...): the scan stops at the first fault beyond maxFaults.
RECURSIVE ScanSmaller(_, _, _, _, _)
ScanSmaller(names, larger, maxFaults, commonProperties, faults) ==
    IF names = <<>> THEN [commonProperties |-> commonProperties, faults |-> faults]
    ELSE IF Head(names) \in DOMAIN larger
         THEN ScanSmaller(Tail(names), larger, maxFaults,
                          Append(commonProperties, Head(names)), faults)
         ELSE IF FaultsExceeded(faults + 1, maxFaults)
              THEN [commonProperties |-> commonProperties, faults |-> faults + 1]
              ELSE ScanSmaller(Tail(names), larger, maxFaults, commonProperties, faults + 1)

\* Mutant: a property is compared when either side has a non-null alternative.
PropertyTypesConflict_EitherSide(ts, tl) ==
    LET tsCases == nonNullTypeCases(ts.type)
        tlCases == nonNullTypeCases(tl.type)
    IN  (tsCases # {} \/ tlCases # {}) /\ ~typeSetsCanBeCombined(tsCases, tlCases)

\* Lines 69-71: the test on one common property.
PropertyTypesConflict(ts, tl) ==
    LET tsCases == nonNullTypeCases(ts.type)
        tlCases == nonNullTypeCases(tl.type)
    IN  tsCases # {} /\ tlCases # {} /\ ~typeSetsCanBeCombined(tsCases, tlCases)

\* Lines 63-75: the loop over commonProperties; the exit taken.
RECURSIVE CompareCommon(_, _, _)
CompareCommon(commonProperties, smaller, larger) ==
    IF commonProperties = <<>> THEN "true"
    ELSE LET name == Head(commonProperties) IN
         IF name \notin DOMAIN smaller \/ name \notin DOMAIN larger THEN "panic"
         ELSE IF PropertyTypesConflict(smaller[name], larger[name]) THEN "false:types"
         ELSE CompareCommon(Tail(commonProperties), smaller, larger)

\* canBeCombined, with the exit it takes: "false:ratio" (line 38), "assert"
\* (line 51), "false:faults" (line 62), "panic" (line 67), "false:types"
\* (line 72), "true" (line 75).
canBeCombinedExit(a, b) ==
    LET p1 == a.properties
        p2 == b.properties
    IN  IF SizeRatioRejects(Size(p1), Size(p2)) THEN "false:ratio"
        ELSE LET larger == IF FirstIsLarger(p1, p2) THEN p1 ELSE p2
                 smaller == IF FirstIsLarger(p1, p2) THEN p2 ELSE p1
                 maxFaults == Size(smaller) - minOverlap(Size(larger))
             IN  IF ~(maxFaults >= 0) THEN "assert"
                 ELSE LET scan == ScanSmaller(OrderedNames(smaller), larger, maxFaults, <<>>, 0)
                      IN  IF FaultsExceeded(scan.faults, maxFaults) THEN "false:faults"
                          ELSE CompareCommon(scan.commonProperties, smaller, larger)

canBeCombined(a, b) == canBeCombinedExit(a, b) = "true"

\* ------------------------------------------- direct calls of canBeCombined

\* The property types the two compared classes draw from.
PropertyTypes ==
    { TString, TInteger, TNull,
      {Prim("integer"), Prim("null")},
      {Prim("integer"), Prim("string")},
      {ArrayOf("string")}, {ArrayOf("integer")} }

\* Properties "a" and "b" take every type of PropertyTypes; the others are
\* required strings.
VariedNames == {"a", "b"}
DefaultProperty == [type |-> TString, isOptional |-> FALSE]

PropertyMaps ==
    UNION { { [n \in S |-> IF n \in VariedNames
                           THEN [type |-> v[n], isOptional |-> FALSE]
                           ELSE DefaultProperty]
              : v \in [S \cap VariedNames -> PropertyTypes] }
            : S \in {T \in SUBSET Names : Cardinality(T) <= MaxProps} }

Class(n, p) == [id |-> n, properties |-> p, isFixed |-> FALSE]

NoClique == [members |-> <<>>, prototypes |-> <<>>]
NoOutcome == [forward |-> "none", backward |-> "none"]

InitCombine ==
    /\ TelemetryUnused
    /\ c1 \in {Class(1, p) : p \in PropertyMaps}
    /\ c2 \in {Class(2, p) : p \in PropertyMaps}
    /\ c3 = Class(0, <<>>)
    /\ outcome = NoOutcome
    /\ pc = "call"
    /\ graph = <<>>
    /\ includeFixedClasses = FALSE
    /\ unprocessedClasses = <<>>
    /\ classesLeft = <<>>
    /\ clique = NoClique
    /\ cliques = <<>>
    /\ i = 0
    /\ run = 0

\* canBeCombined(c1, c2) and canBeCombined(c2, c1) are called.
CallCanBeCombined ==
    /\ pc = "call"
    /\ outcome' = [forward |-> canBeCombinedExit(c1, c2),
                   backward |-> canBeCombinedExit(c2, c1)]
    /\ pc' = "returned"
    /\ UNCHANGED <<graph, includeFixedClasses, unprocessedClasses, classesLeft, clique, cliques,
                   i, run, c1, c2, c3, telemetryVars>>

NextCombine == CallCanBeCombined

SpecCombine == InitCombine /\ [][NextCombine]_vars

\* ---------------------------------------------------- findSimilarityCliques

Range(s) == {s[k] : k \in 1..Len(s)}

\* Mutant: only the prototype added last is tested.
tryAddToClique_LastPrototypeOnly(c, cl) ==
    LET last == cl.prototypes[Len(cl.prototypes)] IN
    IF structurallyCompatible(last, c)
    THEN [added |-> TRUE,
          clique |-> [members |-> Append(cl.members, c), prototypes |-> cl.prototypes]]
    ELSE IF canBeCombined(last, c)
    THEN [added |-> TRUE,
          clique |-> [members |-> Append(cl.members, c),
                      prototypes |-> Append(cl.prototypes, c)]]
    ELSE [added |-> FALSE, clique |-> cl]

\* Mutant: the fuzzy loop runs before the exact loop.
tryAddToClique_FuzzyFirst(c, cl) ==
    IF \E k \in 1..Len(cl.prototypes) : canBeCombined(cl.prototypes[k], c)
    THEN [added |-> TRUE,
          clique |-> [members |-> Append(cl.members, c),
                      prototypes |-> Append(cl.prototypes, c)]]
    ELSE IF \E k \in 1..Len(cl.prototypes) : structurallyCompatible(cl.prototypes[k], c)
    THEN [added |-> TRUE,
          clique |-> [members |-> Append(cl.members, c), prototypes |-> cl.prototypes]]
    ELSE [added |-> FALSE, clique |-> cl]

\* Mutant: a fuzzy match is pushed to prototypes but not to members.
tryAddToClique_PrototypesOnly(c, cl) ==
    IF \E k \in 1..Len(cl.prototypes) : structurallyCompatible(cl.prototypes[k], c)
    THEN [added |-> TRUE,
          clique |-> [members |-> Append(cl.members, c), prototypes |-> cl.prototypes]]
    ELSE IF \E k \in 1..Len(cl.prototypes) : canBeCombined(cl.prototypes[k], c)
    THEN [added |-> TRUE,
          clique |-> [members |-> cl.members, prototypes |-> Append(cl.prototypes, c)]]
    ELSE [added |-> FALSE, clique |-> cl]

\* Mutant: the second loop (canBeCombined against the prototypes) is missing.
tryAddToClique_ExactOnly(c, cl) ==
    IF \E k \in 1..Len(cl.prototypes) : structurallyCompatible(cl.prototypes[k], c)
    THEN [added |-> TRUE,
          clique |-> [members |-> Append(cl.members, c), prototypes |-> cl.prototypes]]
    ELSE [added |-> FALSE, clique |-> cl]

\* tryAddToClique: the value returned and the clique as the call leaves it.
\* Each loop returns at its first match, and what it does there does not
\* depend on which prototype matched.
tryAddToClique(c, cl) ==
    IF \E k \in 1..Len(cl.prototypes) : structurallyCompatible(cl.prototypes[k], c)
    THEN [added |-> TRUE,
          clique |-> [members |-> Append(cl.members, c), prototypes |-> cl.prototypes]]
    ELSE IF \E k \in 1..Len(cl.prototypes) : canBeCombined(cl.prototypes[k], c)
    THEN [added |-> TRUE,
          clique |-> [members |-> Append(cl.members, c),
                      prototypes |-> Append(cl.prototypes, c)]]
    ELSE [added |-> FALSE, clique |-> cl]

\* Mutant: a class that was not added to the clique is dropped instead of
\* being pushed to classesLeft.
LeftAfterScan_Never(added, left, c) == left

\* Mutant: the class is pushed to classesLeft whatever tryAddToClique returned.
LeftAfterScan_Always(added, left, c) == Append(left, c)

\* if (!tryAddToClique(c, clique)) classesLeft.push(c)
LeftAfterScan(added, left, c) == IF added THEN left ELSE Append(left, c)

\* Mutant: a clique of one member is emitted too.
EmitClique_Singletons(found, cl) ==
    IF Len(cl.members) > 0 THEN Append(found, cl.members) ELSE found

\* if (clique.members.length > 1) cliques.push(clique.members)
EmitClique(found, cl) ==
    IF Len(cl.members) > 1 THEN Append(found, cl.members) ELSE found

\* graph.allNamedTypesSeparated().classes.filter(c => includeFixedClasses || !c.isFixed)
CandidateClasses(g, inc) == SelectSeq(g, LAMBDA c : inc \/ ~c.isFixed)

\* The property maps of the classes of a graph: one-property classes whose
\* types agree, differ or are null, and classes of 3 and 4 string properties.
StringProperties(S) == [n \in S |-> DefaultProperty]
GraphShapes ==
    { [n \in {"a"} |-> [type |-> TInteger, isOptional |-> FALSE]],
      [n \in {"a"} |-> [type |-> {Prim("integer"), Prim("string")}, isOptional |-> FALSE]],
      [n \in {"a"} |-> [type |-> TNull, isOptional |-> FALSE]],
      StringProperties({"a", "b", "c"}),
      StringProperties({"a", "b", "d"}),
      StringProperties({"a", "b", "c", "d"}) }

\* A class of a graph: any shape when not fixed, one shape when fixed.
GraphClasses ==
    {[properties |-> p, isFixed |-> FALSE] : p \in GraphShapes}
        \cup {[properties |-> StringProperties({"a", "b", "c"}), isFixed |-> TRUE]}

\* The graphs of at most max classes; a class's id is its reference.
Graphs(max) ==
    UNION { { [k \in 1..n |-> [id |-> k, properties |-> f[k].properties,
                               isFixed |-> f[k].isFixed]]
              : f \in [1..n -> GraphClasses] }
            : n \in 0..max }

\* The state at line 106, before the first test of the while loop.
InitCliques(g, inc) ==
    /\ TelemetryUnused
    /\ graph = g
    /\ includeFixedClasses = inc
    /\ unprocessedClasses = CandidateClasses(g, inc)
    /\ classesLeft = <<>>
    /\ clique = NoClique
    /\ cliques = <<>>
    /\ i = 0
    /\ pc = "loop"
    /\ run = 1
    /\ c1 = Class(0, <<>>)
    /\ c2 = Class(0, <<>>)
    /\ c3 = Class(0, <<>>)
    /\ outcome = NoOutcome

Init == \E g \in Graphs(MaxClasses), inc \in BOOLEAN : InitCliques(g, inc)

\* Lines 106-108: the loop test passes; the first class seeds a new clique.
StartRound ==
    /\ pc = "loop"
    /\ Len(unprocessedClasses) > 0
    /\ classesLeft' = <<>>
    /\ clique' = [members |-> <<unprocessedClasses[1]>>,
                  prototypes |-> <<unprocessedClasses[1]>>]
    /\ i' = 2
    /\ pc' = "scan"
    /\ UNCHANGED <<graph, includeFixedClasses, unprocessedClasses, cliques, run, c1, c2, c3, outcome, telemetryVars>>

\* Lines 110-115: one iteration of the for loop.
ScanClass ==
    /\ pc = "scan"
    /\ i <= Len(unprocessedClasses)
    /\ LET c == unprocessedClasses[i]
           r == tryAddToClique(c, clique)
       IN  /\ clique' = r.clique
           /\ classesLeft' = LeftAfterScan(r.added, classesLeft, c)
    /\ i' = i + 1
    /\ UNCHANGED <<graph, includeFixedClasses, unprocessedClasses, cliques, pc, run, c1, c2, c3, outcome, telemetryVars>>

\* Lines 117-121: the for loop is over; the clique is emitted or dropped.
EndRound ==
    /\ pc = "scan"
    /\ i > Len(unprocessedClasses)
    /\ cliques' = EmitClique(cliques, clique)
    /\ unprocessedClasses' = classesLeft
    /\ pc' = "loop"
    /\ UNCHANGED <<graph, includeFixedClasses, classesLeft, clique, i, run, c1, c2, c3, outcome, telemetryVars>>

\* Line 124: the loop test fails; cliques is returned.
Return ==
    /\ pc = "loop"
    /\ Len(unprocessedClasses) = 0
    /\ pc' = "done"
    /\ UNCHANGED <<graph, includeFixedClasses, unprocessedClasses, classesLeft, clique, cliques,
                   i, run, c1, c2, c3, outcome, telemetryVars>>

Next == StartRound \/ ScanClass \/ EndRound \/ Return

Spec == Init /\ [][Next]_vars

\* ------------------------------------------------------------ combineClasses

\* unifyTypes on the types of one property: the alternatives of all of them,
\* those of the same kind merged into one.
unifyPropertyTypes(types) ==
    LET all == UNION types
        kinds == {a.kind : a \in all}
    IN  {[kind |-> k, items |-> UNION {a.items : a \in {b \in all : b.kind = k}}] : k \in kinds}

\* unifyTypes on the members of a clique: the class with every property of
\* every member; a property is optional when it is optional in a member or
\* missing from one.
unifyTypes(members) ==
    LET names == UNION {DOMAIN m.properties : m \in members}
        having(n) == {m \in members : n \in DOMAIN m.properties}
    IN  [n \in names |->
            [type |-> unifyPropertyTypes({m.properties[n].type : m \in having(n)}),
             isOptional |-> \/ having(n) # members
                            \/ \E m \in having(n) : m.properties[n].isOptional]]

\* The classes of `old` that are in no clique of `found`.
NotReplaced(old, found) ==
    {c \in Range(old) : \A k \in 1..Len(found) : c \notin Range(found[k])}

\* makeCliqueClass on clique k: the class that replaces its members.  Its
\* reference is new; unionBuilderForUnification(builder, false, false, ...)
\* makes it not fixed.
makeCliqueClass(found, k) ==
    [id |-> MaxClasses + k, properties |-> unifyTypes(Range(found[k])),
     isFixed |-> FALSE]

\* graph.rewrite: the classes of the new graph.
RewrittenClasses(old, found) ==
    NotReplaced(old, found) \cup {makeCliqueClass(found, k) : k \in 1..Len(found)}

\* The orders in which a graph can enumerate the classes of S.
Orders(S) ==
    {f \in [1..Cardinality(S) -> S] : \A j, k \in 1..Cardinality(S) : f[j] = f[k] => j = k}

\* combineClasses is run on a graph, and again on the graph it returned.
InitTwice == \E g \in Graphs(MaxClasses) : InitCliques(g, FALSE)

\* Line 152 of the first run, then line 133 and lines 96-100 of the second:
\* the graph is rewritten and findSimilarityCliques(graph, false) starts on it.
Rewrite ==
    /\ pc = "done"
    /\ run = 1
    /\ \E g \in Orders(RewrittenClasses(graph, cliques)) :
          /\ graph' = g
          /\ unprocessedClasses' = CandidateClasses(g, FALSE)
    /\ includeFixedClasses' = FALSE
    /\ classesLeft' = <<>>
    /\ clique' = NoClique
    /\ cliques' = <<>>
    /\ i' = 0
    /\ pc' = "loop"
    /\ run' = 2
    /\ UNCHANGED <<c1, c2, c3, outcome, telemetryVars>>

NextTwice == StartRound \/ ScanClass \/ EndRound \/ Return \/ Rewrite

SpecTwice == InitTwice /\ [][NextTwice]_vars

\* Three classes are compared pairwise, as a test of transitivity does.
InitTransitivity ==
    /\ TelemetryUnused
    /\ c1 \in {Class(1, p) : p \in GraphShapes}
    /\ c2 \in {Class(2, p) : p \in GraphShapes}
    /\ c3 \in {Class(3, p) : p \in GraphShapes}
    /\ outcome = [ab |-> "none", bc |-> "none", ac |-> "none"]
    /\ pc = "call"
    /\ graph = <<>>
    /\ includeFixedClasses = FALSE
    /\ unprocessedClasses = <<>>
    /\ classesLeft = <<>>
    /\ clique = NoClique
    /\ cliques = <<>>
    /\ i = 0
    /\ run = 0

\* canBeCombined(c1, c2), canBeCombined(c2, c3) and canBeCombined(c1, c3) are called.
CallPairwise ==
    /\ pc = "call"
    /\ outcome' = [ab |-> canBeCombinedExit(c1, c2),
                   bc |-> canBeCombinedExit(c2, c3),
                   ac |-> canBeCombinedExit(c1, c3)]
    /\ pc' = "returned"
    /\ UNCHANGED <<graph, includeFixedClasses, unprocessedClasses, classesLeft, clique, cliques,
                   i, run, c1, c2, c3, telemetryVars>>

NextTransitivity == CallPairwise

SpecTransitivity == InitTransitivity /\ [][NextTransitivity]_vars


\* -------------------------------------------------------- Telemetry object

\* The arguments label and value of event(), which are optional.
Labels == {Undefined, "label"}
Values == {Undefined, "value"}

\* GoogleAnalytics: each method builds one hit and sends it.
PageviewHit == [type |-> "pageview", label |-> Undefined, value |-> Undefined]
TimingHit == [type |-> "timing", label |-> Undefined, value |-> Undefined]
\* GoogleAnalytics.event: the value is passed on only together with a label.
EventHit(label, value) ==
    [type |-> "event",
     label |-> label,
     value |-> IF label # Undefined THEN value ELSE Undefined]

\* this.analytics.<method>(...): NoAnalytics passes, GoogleAnalytics sends.
Forward(hit) == IF analytics = "GoogleAnalytics" THEN Append(sent, hit) ELSE sent

\* The classes of CombineClasses play no part in telemetry.
CombineIdle ==
    /\ graph = <<>>
    /\ includeFixedClasses = FALSE
    /\ unprocessedClasses = <<>>
    /\ classesLeft = <<>>
    /\ clique = NoClique
    /\ cliques = <<>>
    /\ i = 0
    /\ pc = "telemetry"
    /\ run = 0
    /\ c1 = Class(0, <<>>)
    /\ c2 = Class(0, <<>>)
    /\ c3 = Class(0, <<>>)
    /\ outcome = NoOutcome

combineVars == <<graph, includeFixedClasses, unprocessedClasses, classesLeft, clique, cliques,
                 i, pc, run, c1, c2, c3, outcome>>

\* export const telemetry = new Telemetry(), in a process that finds the
\* storage as an earlier process left it.
InitTelemetry ==
    /\ TelemetryConstructed
    /\ storedState \in TelemetryState \cup {Undefined}
    /\ CombineIdle

\* init() up to its await: storage.init() is pending.
InitCall ==
    /\ pc = "telemetry"
    /\ initPc = "idle"
    /\ initPc' = "awaiting"
    /\ UNCHANGED <<analytics, storedState, sent, combineVars>>

\* init() after its await: if (Storage.analyticsState === "enabled") this.enable()
InitResume ==
    /\ pc = "telemetry"
    /\ initPc = "awaiting"
    /\ initPc' = "done"
    /\ IF analyticsState = "enabled"
       THEN storedState' = "enabled" /\ analytics' = "GoogleAnalytics"
       ELSE UNCHANGED <<storedState, analytics>>
    /\ UNCHANGED <<sent, combineVars>>

\* enable()
Enable ==
    /\ pc = "telemetry"
    /\ storedState' = "enabled"
    /\ analytics' = "GoogleAnalytics"
    /\ UNCHANGED <<initPc, sent, combineVars>>

\* disable()
Disable ==
    /\ pc = "telemetry"
    /\ storedState' = "disabled"
    /\ analytics' = "NoAnalytics"
    /\ UNCHANGED <<initPc, sent, combineVars>>

\* set state(state): only the stored item is written.
SetState ==
    /\ pc = "telemetry"
    /\ \E state \in TelemetryState : storedState' = state
    /\ UNCHANGED <<analytics, initPc, sent, combineVars>>

\* pageview(page)
Pageview ==
    /\ pc = "telemetry"
    /\ Len(sent) < MaxSent
    /\ sent' = Forward(PageviewHit)
    /\ UNCHANGED <<analytics, storedState, initPc, combineVars>>

\* timing(category, variable, time), also the last step of timeAsync
Timing ==
    /\ pc = "telemetry"
    /\ Len(sent) < MaxSent
    /\ sent' = Forward(TimingHit)
    /\ UNCHANGED <<analytics, storedState, initPc, combineVars>>

\* event(category, action, label?, value?)
Event ==
    /\ pc = "telemetry"
    /\ Len(sent) < MaxSent
    /\ \E label \in Labels, value \in Values : sent' = Forward(EventHit(label, value))
    /\ UNCHANGED <<analytics, storedState, initPc, combineVars>>

NextTelemetry ==
    \/ InitCall
    \/ InitResume
    \/ Enable
    \/ Disable
    \/ SetState
    \/ Pageview
    \/ Timing
    \/ Event

SpecTelemetry == InitTelemetry /\ [][NextTelemetry]_vars


\* -------------------------------------- claims on findSimilarityCliques

Done == pc = "done"
\* The candidate classes of the run, in their order.
Candidates == CandidateClasses(graph, includeFixedClasses)
InClique(c, k) == \E j \in 1..Len(cliques[k]) : cliques[k][j].id = c.id
\* The index of the output clique a class is in, 0 when it is in none.
CliqueOf(c) ==
    IF \E k \in 1..Len(cliques) : InClique(c, k)
    THEN CHOOSE k \in 1..Len(cliques) : InClique(c, k)
    ELSE 0
\* Exact shape equality of two classes.
SameShape(a, b) == a.properties = b.properties

\* C1: a class is in at most one output clique: no class occurs at two
\* places of the output, neither in two cliques nor twice in one.
C1_CliquesDisjoint ==
    \A k1, k2 \in 1..Len(cliques) :
        \A j1 \in 1..Len(cliques[k1]), j2 \in 1..Len(cliques[k2]) :
            cliques[k1][j1].id = cliques[k2][j2].id => (k1 = k2 /\ j1 = j2)

\* C1 witness: the run is over with two cliques in the output.
C1_Witness == Done /\ Len(cliques) = 2

\* C2: every emitted clique has at least 2 members; a round that ends with
\* the seed alone emits nothing, and the seed is not a candidate of any later
\* round.
C2_NoSingletons ==
    [][ /\ \A k \in 1..Len(cliques') : Len(cliques'[k]) >= 2
        /\ (pc = "scan" /\ pc' = "loop" /\ Len(clique.members) = 1) =>
              /\ cliques' = cliques
              /\ \A k \in 1..Len(unprocessedClasses') :
                    unprocessedClasses'[k].id # clique.members[1].id ]_vars

\* C2 witness: the run is over, a seed was dropped and a clique was emitted.
C2_Witness ==
    /\ Done
    /\ Len(cliques) = 1
    /\ \E c \in Range(Candidates) : CliqueOf(c) = 0

\* C3 as stated: two structurally compatible candidates are members of one
\* and the same output clique.
C3_CompatibleTogether ==
    Done =>
        \A a, b \in Range(Candidates) :
            (a.id # b.id /\ SameShape(a, b)) =>
                (CliqueOf(a) # 0 /\ CliqueOf(a) = CliqueOf(b))

\* C3 amended: of two structurally compatible candidates, the one that comes
\* later in the candidate order is always in an output clique, and it is the
\* clique of the earlier one unless the later one was taken into a clique
\* emitted before the round in which the earlier one was seeded or added.
C3_LaterJoinsEarlier ==
    Done =>
        \A ka, kb \in 1..Len(Candidates) :
            (ka < kb /\ SameShape(Candidates[ka], Candidates[kb])) =>
                /\ CliqueOf(Candidates[kb]) # 0
                /\ CliqueOf(Candidates[ka]) # 0 =>
                      CliqueOf(Candidates[kb]) <= CliqueOf(Candidates[ka])

\* C3 witness: two structurally compatible candidates end in the same clique,
\* the earlier one not being the seed.
C3_Witness ==
    /\ Done
    /\ \E ka, kb \in 2..Len(Candidates) :
          /\ ka < kb
          /\ SameShape(Candidates[ka], Candidates[kb])
          /\ CliqueOf(Candidates[ka]) = 1
          /\ CliqueOf(Candidates[kb]) = 1

\* C9: tryAddToClique(c, clique): if some prototype is structurally compatible
\* with c, c is appended to members only; otherwise, if canBeCombined(prototype,
\* c) holds for some prototype, c is appended to prototypes and members;
\* otherwise the clique is unchanged and c is appended to classesLeft.
C9_TryAddToClique ==
    [][ (pc = "scan" /\ i' = i + 1) =>
          LET c == unprocessedClasses[i]
              exact == \E k \in 1..Len(clique.prototypes) : SameShape(clique.prototypes[k], c)
              fuzzy == \E k \in 1..Len(clique.prototypes) : canBeCombined(clique.prototypes[k], c)
          IN  IF exact
              THEN /\ clique'.members = Append(clique.members, c)
                   /\ clique'.prototypes = clique.prototypes
                   /\ classesLeft' = classesLeft
              ELSE IF fuzzy
              THEN /\ clique'.members = Append(clique.members, c)
                   /\ clique'.prototypes = Append(clique.prototypes, c)
                   /\ classesLeft' = classesLeft
              ELSE /\ clique' = clique
                   /\ classesLeft' = Append(classesLeft, c) ]_vars

\* C9 witness: a round in which one class was added to members only, one to
\* prototypes and members, and one was left for the next round.
C9_Witness ==
    /\ pc = "scan"
    /\ Len(clique.prototypes) = 2
    /\ Len(clique.members) = 3
    /\ Len(classesLeft) = 1

\* The position of a class in the candidate order.
PositionOf(c) == CHOOSE k \in 1..Len(Candidates) : Candidates[k].id = c.id
\* The classes of list keep the order they have among the candidates.
InCandidateOrder(list) ==
    \A j, k \in 1..Len(list) : j < k => PositionOf(list[j]) < PositionOf(list[k])

\* C11: while a clique is under construction, its prototypes list is not
\* empty and holds only members, the seed (the first class of the round) is
\* the first element of both lists, and both lists keep the candidates in
\* their original relative order.
C11_CliqueShape ==
    pc = "scan" =>
        /\ clique.prototypes # <<>>
        /\ \A k \in 1..Len(clique.prototypes) :
              \E j \in 1..Len(clique.members) : clique.members[j].id = clique.prototypes[k].id
        /\ clique.members[1] = unprocessedClasses[1]
        /\ clique.prototypes[1] = unprocessedClasses[1]
        /\ InCandidateOrder(clique.members)
        /\ InCandidateOrder(clique.prototypes)

\* C11 witness: a clique of four members, three of them prototypes.
C11_Witness ==
    /\ pc = "scan"
    /\ Len(clique.members) = 4
    /\ Len(clique.prototypes) = 3

\* findSimilarityCliques is synchronous code of one thread: a step that can
\* be taken is taken.  Every class of the graph is a candidate here
\* (includeFixedClasses), which gives the longest candidate lists.
InitTerminating == \E g \in Graphs(MaxClasses) : InitCliques(g, TRUE)
SpecTerminating == InitTerminating /\ [][Next]_vars /\ WF_vars(Next)

Ids(list) == {list[k].id : k \in 1..Len(list)}
\* The candidates that were processed and are in no clique found so far: the
\* seeds of the rounds that ended with a clique of one.
LoneSeeds == {k \in 1..Len(Candidates) :
                 /\ Candidates[k].id \notin Ids(unprocessedClasses)
                 /\ CliqueOf(Candidates[k]) = 0}
\* The rounds that have ended: one per clique found and one per lone seed.
RoundsEnded == Len(cliques) + Cardinality(LoneSeeds)
\* One round, from its first step to the assignment of line 121.
C12_RoundRemovesClique ==
    (pc = "scan" /\ pc' = "loop") =>
        /\ Len(unprocessedClasses') < Len(unprocessedClasses)
        /\ unprocessedClasses[1].id \in Ids(clique.members)
        /\ Len(clique.members) = Cardinality(Ids(clique.members))
        /\ Ids(unprocessedClasses') = Ids(unprocessedClasses) \ Ids(clique.members)
        /\ Len(unprocessedClasses') = Len(unprocessedClasses) - Len(clique.members)

\* C12: findSimilarityCliques terminates on every finite candidate list.
\* Each round removes from the unprocessed list exactly the classes of its
\* clique, the seed among them, so the unprocessed count strictly decreases;
\* the loop ends with no candidate left after at most n rounds for n
\* candidates, and every candidate left the list as the seed or a member of
\* exactly one round's clique.
C12_Terminates ==
    /\ <>(pc = "done" /\ unprocessedClasses = <<>>)
    /\ [][C12_RoundRemovesClique]_vars
    /\ [](pc \in {"loop", "done"} => RoundsEnded <= Len(Candidates))

\* C12 witness: the loop has ended after three rounds, one of them with a
\* lone seed.
C12_Witness ==
    /\ pc = "done"
    /\ unprocessedClasses = <<>>
    /\ Len(cliques) = 1
    /\ Cardinality(LoneSeeds) = 2

\* C13: after findSimilarityCliques has returned, two candidates that are
\* both in no output clique are neither structurallyCompatible nor
\* combinable by canBeCombined, the earlier one taken as the first argument.
C13_LeftOversDoNotMatch ==
    Done =>
        \A j, k \in 1..Len(Candidates) :
            (j < k /\ CliqueOf(Candidates[j]) = 0 /\ CliqueOf(Candidates[k]) = 0) =>
                /\ ~structurallyCompatible(Candidates[j], Candidates[k])
                /\ ~canBeCombined(Candidates[j], Candidates[k])

\* C13 witness: the function has returned a clique and left two candidates
\* in no clique.
C13_Witness ==
    /\ Done
    /\ Len(cliques) = 1
    /\ Cardinality({k \in 1..Len(Candidates) : CliqueOf(Candidates[k]) = 0}) = 2

\* ------------------------------------------- claims on canBeCombined

Returned == pc = "returned"

P1 == c1.properties
P2 == c2.properties
\* The class with fewer properties and the one with more.
Fewer == IF Size(P1) <= Size(P2) THEN P1 ELSE P2
More == IF Size(P1) <= Size(P2) THEN P2 ELSE P1
CommonNames == DOMAIN P1 \cap DOMAIN P2
\* Number of property names of the smaller class that the larger class lacks.
Absent == Cardinality(DOMAIN Fewer \ DOMAIN More)
\* ceil(n * 0.75)
CeilThreeQuarters(n) == CHOOSE k \in 0..n : 4 * k >= 3 * n /\ 4 * (k - 1) < 3 * n
FaultBudget == Size(Fewer) - CeilThreeQuarters(Size(More))

\* Two sets of alternatives are the same alternative for alternative.
AlternativesMatch(s1, s2) ==
    /\ Cardinality(s1) = Cardinality(s2)
    /\ \A t \in s1 : \E o \in s2 : o.kind = t.kind /\ o.items = t.items
NonNull(p, n) == {a \in p[n].type : a.kind # "null"}
\* Property n has a non-null alternative on both sides and the two differ.
BothSidedMismatch(n) ==
    /\ NonNull(P1, n) # {}
    /\ NonNull(P2, n) # {}
    /\ ~AlternativesMatch(NonNull(P1, n), NonNull(P2, n))
\* Property n has a non-null alternative on some side and the two differ.
EitherSidedMismatch(n) ==
    /\ NonNull(P1, n) # {} \/ NonNull(P2, n) # {}
    /\ ~AlternativesMatch(NonNull(P1, n), NonNull(P2, n))

\* C5: when no common property has conflicting types, canBeCombined returns
\* true exactly when the smaller size is at least 0.75 of the larger and the
\* smaller class's names absent from the larger are at most
\* smaller.size - ceil(larger.size * 0.75); a 2-property class against a
\* 3-property superset leaves by the size-ratio gate, a 3-property class
\* against a 4-property superset is accepted.
C5_OverlapRule ==
    Returned =>
        /\ (\A n \in CommonNames : ~BothSidedMismatch(n)) =>
              ((outcome.forward = "true") <=>
                  /\ 4 * Size(Fewer) >= 3 * Size(More)
                  /\ Absent <= FaultBudget)
        /\ (Size(Fewer) = 2 /\ Size(More) = 3 /\ Absent = 0) =>
              outcome.forward = "false:ratio"
        /\ (/\ Size(Fewer) = 3 /\ Size(More) = 4 /\ Absent = 0
            /\ \A n \in CommonNames : ~BothSidedMismatch(n)) =>
              outcome.forward = "true"

\* C5 witness: two 4-property classes that differ in one name are combined.
C5_Witness ==
    /\ Returned
    /\ Size(P1) = 4 /\ Size(P2) = 4 /\ Absent = 1
    /\ outcome.forward = "true"

\* C7 as stated: some pair of classes gets different answers in the two
\* argument orders.
C7_SomePairAsymmetric ==
    pc \in {"call", "returned"} =>
        \E p \in PropertyMaps, q \in PropertyMaps :
            canBeCombined(Class(1, p), Class(2, q)) # canBeCombined(Class(2, q), Class(1, p))

\* C7 amended: canBeCombined(a, b) and canBeCombined(b, a) return the same
\* answer for every pair of classes.
C7_Symmetric ==
    Returned => ((outcome.forward = "true") <=> (outcome.backward = "true"))

\* C7 witness: a tie in size with different names, where the argument order
\* decides which class is scanned, accepted in both orders.
C7_Witness ==
    /\ Returned
    /\ Size(P1) = Size(P2) /\ DOMAIN P1 # DOMAIN P2
    /\ \E n \in CommonNames : P1[n].type # P2[n].type
    /\ outcome.forward = "true" /\ outcome.backward = "true"

\* C8 as stated: a common property with a non-null alternative on either side
\* and non-matching alternatives makes canBeCombined return false.
C8_EitherSideRejects ==
    Returned => ((\E n \in CommonNames : EitherSidedMismatch(n)) => outcome.forward # "true")

\* C8 amended: canBeCombined returns false whenever some common property has a
\* non-null alternative on both sides and the two sets do not match, and it
\* leaves by the type test only then; a common property that is purely null on
\* one side or on both is not compared.
C8_BothSidesReject ==
    Returned =>
        /\ (\E n \in CommonNames : BothSidedMismatch(n)) => outcome.forward # "true"
        /\ outcome.forward = "false:types" => \E n \in CommonNames : BothSidedMismatch(n)

\* C8 witness: a common property purely null on one side only, and the two
\* classes are combined.
C8_Witness ==
    /\ Returned
    /\ \E n \in CommonNames : NonNull(P1, n) = {} /\ NonNull(P2, n) # {}
    /\ outcome.forward = "true"

\* C10: canBeCombined never fails the 'Max faults negative' assertion nor
\* reaches the 'Both of these should have this property' panic; past the
\* size-ratio gate, smaller.size - ceil(larger.size * 0.75) is >= 0.
C10_NoInvariantViolation ==
    Returned =>
        /\ outcome.forward \notin {"assert", "panic"}
        /\ outcome.backward \notin {"assert", "panic"}
        /\ outcome.forward # "false:ratio" => FaultBudget >= 0

\* C10 witness: a call that passes the gate with a fault budget of exactly 0
\* and compares common properties.
C10_Witness ==
    /\ Returned
    /\ Size(P1) = 4 /\ Size(P2) = 3 /\ FaultBudget = 0
    /\ outcome.forward = "false:types"

\* The one property name of a class with one property.
OnlyName(c) == CHOOSE n \in DOMAIN c.properties : TRUE
\* c1, c2, c3 each have the one property n; it is purely null in c2 and has
\* different non-null alternatives in c1 and c3.
NullBridge ==
    /\ Size(c1.properties) = 1 /\ Size(c2.properties) = 1 /\ Size(c3.properties) = 1
    /\ OnlyName(c1) = OnlyName(c2) /\ OnlyName(c2) = OnlyName(c3)
    /\ NonNull(c2.properties, OnlyName(c2)) = {}
    /\ NonNull(c1.properties, OnlyName(c1)) # {}
    /\ NonNull(c3.properties, OnlyName(c3)) # {}
    /\ ~AlternativesMatch(NonNull(c1.properties, OnlyName(c1)),
                          NonNull(c3.properties, OnlyName(c3)))
\* c2 has the 4 properties that c1 and c3, of 3 properties each, have between them.
SizeBridge ==
    /\ Size(c1.properties) = 3 /\ Size(c3.properties) = 3 /\ Size(c2.properties) = 4
    /\ DOMAIN c1.properties # DOMAIN c3.properties
    /\ DOMAIN c2.properties = DOMAIN c1.properties \cup DOMAIN c3.properties
    /\ \A n \in DOMAIN c2.properties : c2.properties[n].type = TString
    /\ \A n \in DOMAIN c1.properties : c1.properties[n].type = TString
    /\ \A n \in DOMAIN c3.properties : c3.properties[n].type = TString

\* C6: canBeCombined is not transitive: there are classes A, B, C with
\* canBeCombined(A, B) and canBeCombined(B, C) but not canBeCombined(A, C).
\* Every triple in which B bridges A and C, by a purely null property or by
\* having the properties of both, is one.
C6_NotTransitive ==
    (Returned /\ (NullBridge \/ SizeBridge)) =>
        /\ outcome.ab = "true"
        /\ outcome.bc = "true"
        /\ outcome.ac # "true"

\* C6 witness: the three calls returned true, true and false.
C6_Witness ==
    /\ Returned
    /\ NullBridge
    /\ outcome.ab = "true" /\ outcome.bc = "true" /\ outcome.ac = "false:types"

\* A class made by the first run's rewrite, not a class of the first graph.
Merged(c) == c.id > MaxClasses

\* C4 as stated: the second run of combineClasses finds no clique.
C4_SecondRunFindsNothing ==
    (run = 2 /\ Done) => cliques = <<>>

\* C4 amended: every clique the second run finds has among its members a
\* class that the first run made by merging a clique: the classes the first
\* run left alone are never grouped with each other, and after a first run
\* that found no clique the second run finds none.
C4_SecondRunNeedsMerged ==
    run = 2 =>
        \A k \in 1..Len(cliques) : \E j \in 1..Len(cliques[k]) : Merged(cliques[k][j])

\* C4 witness: the second run is over and has found a clique of a class the
\* first run made and a class the first run left alone.
C4_Witness ==
    /\ run = 2 /\ Done
    /\ Len(cliques) = 1
    /\ \E j \in 1..Len(cliques[1]) : Merged(cliques[1][j])
    /\ \E j \in 1..Len(cliques[1]) : ~Merged(cliques[1][j])


\* -------------------------------------------------- claims on Telemetry

\* A pageview, timing or event call was forwarded to Google Analytics.
HitSent == Len(sent') = Len(sent) + 1

\* C14: after any sequence of init, enable, disable and assignments to
\* state, a pageview, timing or event call is forwarded to Google Analytics
\* only if the persisted analyticsState is "enabled" at the time of the call.
C14_SentOnlyWhenEnabled == [][HitSent => analyticsState = "enabled"]_vars

====
